---- MODULE Spec2Model ----
(***************************************************************************)
(* util/macros.h of godot_voxel: ZN_ARRAY_LENGTH, ZN_LIKELY, ZN_UNLIKELY.  *)
(*                                                                         *)
(* The macros are textual substitutions, so they are modelled as what they *)
(* are: functions from the argument's token sequence to the expansion's    *)
(* token sequence.  What an expansion means is decided by a small          *)
(* evaluator of C++ expressions over token sequences (operator precedence, *)
(* short circuit, unevaluated sizeof operands, array and pointer types).   *)
(* The state is that of a program using the macros: the build variant, the *)
(* size of a pointer on the target, a counter i that conditions and array  *)
(* arguments may increment, and the inputs and result of the last use.     *)
(***************************************************************************)
EXTENDS Integers, Sequences, FiniteSets

VARIABLES gnuc, ptrSize, i, op, arg, res

vars == <<gnuc, ptrSize, i, op, arg, res>>

\* ------------------------------------------------------------------ bounds

MaxLen == 3          \* small array lengths 1..MaxLen
LargeLen == 1024     \* one large array length
MaxElemSize == 4     \* element byte sizes 1..MaxElemSize, and 8
MaxRows == 2         \* rows of the two-dimensional array
MaxVal == 2          \* integer conditions range over -1..MaxVal
MaxCount == 2        \* the counter i is incremented at most up to MaxCount

Lengths == (1..MaxLen) \cup {LargeLen}
ElemSizes == (1..MaxElemSize) \cup {8}
PointerSizes == {4, 8}
Vals == (-1)..MaxVal
Bools == {0, 1}

\* ------------------------------------------------------------------ macros

\* Variants of the macros with one slip each, used to show that the properties
\* below depend on the macros' text.
\* (sizeof(a) / sizeof(a))
ZN_ARRAY_LENGTH_SelfRatio(a) ==
    <<"(", "sizeof", "(">> \o a \o <<")", "/", "sizeof", "(">> \o a \o <<")", ")">>

\* (sizeof(a[0]) / sizeof(a))
ZN_ARRAY_LENGTH_Swapped(a) ==
    <<"(", "sizeof", "(">> \o a \o <<"[", "0", "]", ")", "/", "sizeof", "(">> \o a
        \o <<")", ")">>

\* (sizeof(a) / a[0])
ZN_ARRAY_LENGTH_DroppedSizeof(a) ==
    <<"(", "sizeof", "(">> \o a \o <<")", "/">> \o a \o <<"[", "0", "]", ")">>

\* __builtin_expect(!(x), 1)
ZN_LIKELY_GNUC_SingleNot(x) ==
    <<"__builtin_expect", "(", "!", "(">> \o x \o <<")", ",", "1", ")">>

\* __builtin_expect(!!(x), x)
ZN_LIKELY_GNUC_Twice(x) ==
    <<"__builtin_expect", "(", "!", "!", "(">> \o x \o <<")", ",">> \o x \o <<")">>

\* __builtin_expect((x), 1)
ZN_LIKELY_GNUC_Unnormalised(x) ==
    <<"__builtin_expect", "(", "(">> \o x \o <<")", ",", "1", ")">>

\* __builtin_expect(0, !!(x))
ZN_UNLIKELY_GNUC_SwappedArgs(x) ==
    <<"__builtin_expect", "(", "0", ",", "!", "!", "(">> \o x \o <<")", ")">>

\* __builtin_expect(!(x), 0)
ZN_UNLIKELY_GNUC_Negated(x) ==
    <<"__builtin_expect", "(", "!", "(">> \o x \o <<")", ",", "0", ")">>

\* !x
ZN_UNLIKELY_ELSE_Negated(x) == <<"!">> \o x

\* #define ZN_ARRAY_LENGTH(a) (sizeof(a) / sizeof(a[0]))
ZN_ARRAY_LENGTH(a) ==
    <<"(", "sizeof", "(">> \o a \o <<")", "/", "sizeof", "(">> \o a
        \o <<"[", "0", "]", ")", ")">>

\* #if defined(__GNUC__): #define ZN_LIKELY(x) __builtin_expect(!!(x), 1)
ZN_LIKELY_GNUC(x) ==
    <<"__builtin_expect", "(", "!", "!", "(">> \o x \o <<")", ",", "1", ")">>

\* #if defined(__GNUC__): #define ZN_UNLIKELY(x) __builtin_expect(!!(x), 0)
ZN_UNLIKELY_GNUC(x) ==
    <<"__builtin_expect", "(", "!", "!", "(">> \o x \o <<")", ",", "0", ")">>

\* #else: #define ZN_LIKELY(x) x
ZN_LIKELY_ELSE(x) == x

\* #else: #define ZN_UNLIKELY(x) x
ZN_UNLIKELY_ELSE(x) == x

\* The #if defined(__GNUC__) ... #else ... #endif selection.
ZN_LIKELY(g, x) == IF g THEN ZN_LIKELY_GNUC(x) ELSE ZN_LIKELY_ELSE(x)

ZN_UNLIKELY(g, x) == IF g THEN ZN_UNLIKELY_GNUC(x) ELSE ZN_UNLIKELY_ELSE(x)

\* ------------------------------------------------------------------ types

\* Types of the expressions the macros are used on: a scalar of esz bytes,
\* an array (dims lists the extents, outermost first) of esz-byte elements,
\* or a pointer to an esz-byte element.
ScalarT(esz) == [k |-> "scalar", dims |-> <<>>, esz |-> esz]

ArrayT(dims, esz) == [k |-> "array", dims |-> dims, esz |-> esz]

PointerT(esz) == [k |-> "pointer", dims |-> <<>>, esz |-> esz]

IntT == ScalarT(4)

RECURSIVE Product(_)
Product(dims) == IF dims = <<>> THEN 1 ELSE Head(dims) * Product(Tail(dims))

\* sizeof applied to an expression of type t, on a target with ptr-byte pointers.
SizeofType(t, ptr) ==
    CASE t.k = "pointer" -> ptr
      [] t.k = "array" -> Product(t.dims) * t.esz
      [] OTHER -> t.esz

\* The type of e[k] for e of type t (a scalar cannot be subscripted).
Indexable(t) == t.k \in {"array", "pointer"}

ElementType(t) ==
    IF t.k = "array" /\ Len(t.dims) > 1
    THEN ArrayT(Tail(t.dims), t.esz)
    ELSE ScalarT(t.esz)

\* ------------------------------------------------------------------ evaluator

LitVal == [t \in {"0", "1", "2"} |-> CASE t = "0" -> 0 [] t = "1" -> 1 [] OTHER -> 2]

At(ts, p) == IF p >= 1 /\ p <= Len(ts) THEN ts[p] ELSE "<eof>"

Truth(v) == IF v # 0 THEN 1 ELSE 0

\* Integer division as C++ defines it: the quotient truncated towards zero.
Abs(v) == IF v < 0 THEN -v ELSE v

CDiv(x, y) ==
    IF (x < 0) = (y < 0) THEN Abs(x) \div Abs(y) ELSE -(Abs(x) \div Abs(y))

\* A parse result: value v, type t, next position p, counter i, error flag.
Ok(v, t, p, c) == [v |-> v, t |-> t, p |-> p, i |-> c, err |-> FALSE]

Fail(ts, c) == [v |-> 0, t |-> IntT, p |-> Len(ts) + 1, i |-> c, err |-> TRUE]

\* Where the evaluation of a sub-expression starts: position p, counter c.
Start(p, c) == Ok(0, IntT, p, c)

\* The evaluator, by recursive descent; nt names the nonterminal to parse.
\* For the nonterminals named "..._rest" l is the left operand parsed so far,
\* for the others l gives the position and the counter to start from.
\* ev says whether the expression is evaluated (FALSE inside sizeof and in the
\* operand a short circuit skips): an unevaluated i++ leaves the counter alone.
RECURSIVE Parse(_, _, _, _, _)
Parse(nt, ts, l, ev, env) ==
    LET tok == At(ts, l.p) IN
    CASE nt = "primary" ->
        \* literal, identifier, i++, ( expr ), __builtin_expect ( expr , expr )
        ( CASE tok \in DOMAIN LitVal -> Ok(LitVal[tok], IntT, l.p + 1, l.i)
            [] tok = "i++" -> Ok(l.i, IntT, l.p + 1, IF ev THEN l.i + 1 ELSE l.i)
            [] tok \in DOMAIN env.typ -> Ok(env.val[tok], env.typ[tok], l.p + 1, l.i)
            [] tok = "(" ->
                  LET r == Parse("expr", ts, Start(l.p + 1, l.i), ev, env) IN
                  IF ~r.err /\ At(ts, r.p) = ")" THEN [r EXCEPT !.p = r.p + 1]
                  ELSE Fail(ts, r.i)
            [] tok = "__builtin_expect" ->
                  \* long __builtin_expect(long exp, long c): the value of exp
                  IF At(ts, l.p + 1) # "(" THEN Fail(ts, l.i)
                  ELSE LET e1 == Parse("expr", ts, Start(l.p + 2, l.i), ev, env) IN
                       IF e1.err \/ At(ts, e1.p) # "," THEN Fail(ts, e1.i)
                       ELSE LET e2 == Parse("expr", ts, Start(e1.p + 1, e1.i), ev, env) IN
                            IF e2.err \/ At(ts, e2.p) # ")" THEN Fail(ts, e2.i)
                            ELSE Ok(e1.v, IntT, e2.p + 1, e2.i)
            [] OTHER -> Fail(ts, l.i) )
      [] nt = "postfix_rest" ->
        \* ( [ expr ] )*
        IF l.err \/ tok # "[" THEN l
        ELSE LET k == Parse("expr", ts, Start(l.p + 1, l.i), ev, env) IN
             IF k.err \/ At(ts, k.p) # "]" \/ ~Indexable(l.t) THEN Fail(ts, k.i)
             ELSE Parse("postfix_rest", ts,
                      Ok(IF ElementType(l.t).k = "scalar" THEN env.elem ELSE 1,
                         ElementType(l.t), k.p + 1, k.i), ev, env)
      [] nt = "postfix" ->
        Parse("postfix_rest", ts, Parse("primary", ts, l, ev, env), ev, env)
      [] nt = "unary" ->
        \* ! unary | sizeof unary | postfix
        ( CASE tok = "!" ->
                  LET r == Parse("unary", ts, Start(l.p + 1, l.i), ev, env) IN
                  IF r.err THEN r ELSE Ok(1 - Truth(r.v), IntT, r.p, r.i)
            [] tok = "sizeof" ->
                  \* the operand of sizeof is not evaluated
                  LET r == Parse("unary", ts, Start(l.p + 1, l.i), FALSE, env) IN
                  IF r.err THEN r ELSE Ok(SizeofType(r.t, env.ptr), IntT, r.p, r.i)
            [] OTHER -> Parse("postfix", ts, l, ev, env) )
      [] nt = "mul_rest" ->
        \* ( / unary )*; a division by zero is reported as an error
        IF l.err \/ tok # "/" THEN l
        ELSE LET r == Parse("unary", ts, Start(l.p + 1, l.i), ev, env) IN
             IF r.err \/ r.v = 0 THEN Fail(ts, r.i)
             ELSE Parse("mul_rest", ts, Ok(CDiv(l.v, r.v), IntT, r.p, r.i), ev, env)
      [] nt = "mul" ->
        Parse("mul_rest", ts, Parse("unary", ts, l, ev, env), ev, env)
      [] nt = "eq_rest" ->
        \* ( == multiplicative )*
        IF l.err \/ tok # "==" THEN l
        ELSE LET r == Parse("mul", ts, Start(l.p + 1, l.i), ev, env) IN
             IF r.err THEN r
             ELSE Parse("eq_rest", ts,
                      Ok(IF l.v = r.v THEN 1 ELSE 0, IntT, r.p, r.i), ev, env)
      [] nt = "eq" ->
        Parse("eq_rest", ts, Parse("mul", ts, l, ev, env), ev, env)
      [] nt = "and_rest" ->
        \* ( && equality )*, the right operand evaluated only when the left
        \* one is true
        IF l.err \/ tok # "&&" THEN l
        ELSE LET r == Parse("eq", ts, Start(l.p + 1, l.i), ev /\ l.v # 0, env) IN
             IF r.err THEN r
             ELSE Parse("and_rest", ts,
                      Ok(IF l.v # 0 /\ r.v # 0 THEN 1 ELSE 0, IntT, r.p, r.i), ev, env)
      [] nt = "and" ->
        Parse("and_rest", ts, Parse("eq", ts, l, ev, env), ev, env)
      [] nt = "or_rest" ->
        \* ( || and )*, the right operand evaluated only when the left one is
        \* false
        IF l.err \/ tok # "||" THEN l
        ELSE LET r == Parse("and", ts, Start(l.p + 1, l.i), ev /\ l.v = 0, env) IN
             IF r.err THEN r
             ELSE Parse("or_rest", ts,
                      Ok(IF l.v # 0 \/ r.v # 0 THEN 1 ELSE 0, IntT, r.p, r.i), ev, env)
      [] OTHER ->
        \* "expr": and ( || and )*
        Parse("or_rest", ts, Parse("and", ts, l, ev, env), ev, env)

\* A full expression: its value, the counter after it, and whether it failed
\* to compile (or divided by zero).
Eval(ts, c, env) ==
    LET r == Parse("expr", ts, Start(1, c), TRUE, env) IN
    [v |-> r.v, i |-> r.i, err |-> r.err \/ r.p # Len(ts) + 1]

\* ------------------------------------------------------------------ programs

\* int a, b, c, x;  T arr[n];  T* p = arr;  T arrs[m][n];  int k;
Env(a, b, c, x, n, s, m, ptr, elem) ==
    [val |-> [id \in {"a", "b", "c", "x", "arr", "p", "arrs", "k"} |->
                CASE id = "a" -> a [] id = "b" -> b [] id = "c" -> c
                  [] id = "x" -> x [] id = "k" -> x [] OTHER -> 1],
     typ |-> [id \in {"a", "b", "c", "x", "arr", "p", "arrs", "k"} |->
                CASE id = "arr" -> ArrayT(<<n>>, s)
                  [] id = "p" -> PointerT(s)
                  [] id = "arrs" -> ArrayT(<<m, n>>, s)
                  [] OTHER -> IntT],
     ptr |-> ptr,
     elem |-> elem]

\* Argument expressions the hints are applied to, each with the precedence of
\* its top-level operator (6 primary, 5 unary, 3 equality, 2 &&, 1 ||).
Conds ==
    { [e |-> <<"a">>, prec |-> 6],
      [e |-> <<"(", "a", "||", "b", ")">>, prec |-> 6],
      [e |-> <<"!", "a">>, prec |-> 5],
      [e |-> <<"a", "==", "b">>, prec |-> 3],
      [e |-> <<"a", "&&", "b">>, prec |-> 2],
      [e |-> <<"a", "||", "b">>, prec |-> 1] }

\* Expressions a hinted condition h is placed in: !h, h == c, h && c, h || c,
\* each with the precedence of the enclosing operator.
Contexts ==
    { [name |-> "not", prec |-> 5], [name |-> "eq_c", prec |-> 3],
      [name |-> "and_c", prec |-> 2], [name |-> "or_c", prec |-> 1] }

Enclose(ctx, h) ==
    CASE ctx.name = "not" -> <<"!">> \o h
      [] ctx.name = "eq_c" -> h \o <<"==", "c">>
      [] ctx.name = "and_c" -> h \o <<"&&", "c">>
      [] OTHER -> h \o <<"||", "c">>

\* if (cond) return taken; return not_taken;   with cond's tokens ts
Branch(ts, c, env) ==
    LET r == Eval(<<"(">> \o ts \o <<")">>, c, env) IN
    IF r.err THEN "error" ELSE IF r.v # 0 THEN "taken" ELSE "not_taken"

\* The number of times the tokens of x occur in ts.
RECURSIVE Occurrences(_, _)
Occurrences(x, ts) ==
    IF Len(ts) < Len(x) THEN 0
    ELSE (IF SubSeq(ts, 1, Len(x)) = x THEN 1 ELSE 0) + Occurrences(x, Tail(ts))

Init ==
    /\ gnuc \in BOOLEAN
    /\ ptrSize \in PointerSizes
    /\ i = 0
    /\ op = "none"
    /\ arg = [n |-> 0]
    /\ res = [v |-> 0]

\* T arr[n];  r = ZN_ARRAY_LENGTH(arr);  total = sizeof(arr);  elem = sizeof(arr[0]);
UseArrayLength ==
    /\ op = "none"
    /\ \E n \in Lengths, s \in ElemSizes :
        LET env == Env(0, 0, 0, 0, n, s, 1, ptrSize, 1)
            r == Eval(ZN_ARRAY_LENGTH(<<"arr">>), i, env) IN
        /\ op' = "array_length"
        /\ arg' = [n |-> n, s |-> s]
        /\ res' = [v |-> r.v, err |-> r.err,
                   total |-> Eval(<<"sizeof", "(", "arr", ")">>, i, env).v,
                   elem |-> Eval(<<"sizeof", "(", "arr", "[", "0", "]", ")">>, i, env).v]
        /\ i' = r.i
    /\ UNCHANGED <<gnuc, ptrSize>>

\* T arr[n];  T* p = arr;  r = ZN_ARRAY_LENGTH(p);
UseArrayLengthOnPointer ==
    /\ op = "none"
    /\ \E n \in Lengths, s \in ElemSizes :
        LET r == Eval(ZN_ARRAY_LENGTH(<<"p">>), i,
                      Env(0, 0, 0, 0, n, s, 1, ptrSize, 1)) IN
        /\ op' = "array_length_pointer"
        /\ arg' = [n |-> n, s |-> s]
        /\ res' = [v |-> r.v, err |-> r.err]
        /\ i' = r.i
    /\ UNCHANGED <<gnuc, ptrSize>>

\* int k;  r = ZN_ARRAY_LENGTH(k);   (k[0] does not compile)
UseArrayLengthOnScalar ==
    /\ op = "none"
    /\ \E x \in Vals :
        LET r == Eval(ZN_ARRAY_LENGTH(<<"k">>), i,
                      Env(0, 0, 0, x, 1, 1, 1, ptrSize, 1)) IN
        /\ op' = "array_length_scalar"
        /\ arg' = [x |-> x]
        /\ res' = [v |-> r.v, err |-> r.err]
        /\ i' = r.i
    /\ UNCHANGED <<gnuc, ptrSize>>

\* T arrs[m][n];  r = ZN_ARRAY_LENGTH(arrs[i++]);
UseArrayLengthSideEffect ==
    /\ op = "none"
    /\ i < MaxCount
    /\ \E m \in 1..MaxRows, n \in Lengths, s \in ElemSizes, elem \in {1, 2} :
        LET a == <<"arrs", "[", "i++", "]">>
            r == Eval(ZN_ARRAY_LENGTH(a), i,
                      Env(0, 0, 0, 0, n, s, m, ptrSize, elem)) IN
        /\ op' = "array_length_effect"
        /\ arg' = [m |-> m, n |-> n, s |-> s, elem |-> elem, i0 |-> i]
        /\ res' = [v |-> r.v, err |-> r.err,
                   occ |-> Occurrences(a, ZN_ARRAY_LENGTH(a))]
        /\ i' = r.i
    /\ UNCHANGED <<gnuc, ptrSize>>

\* int x;  r1 = ZN_LIKELY(x);  r2 = ZN_UNLIKELY(x);
UseHint ==
    /\ op = "none"
    /\ \E x \in Vals :
        LET env == Env(0, 0, 0, x, 1, 1, 1, ptrSize, 1)
            r1 == Eval(ZN_LIKELY(gnuc, <<"x">>), i, env)
            r2 == Eval(ZN_UNLIKELY(gnuc, <<"x">>), r1.i, env) IN
        /\ op' = "hint"
        /\ arg' = [x |-> x]
        /\ res' = [likely |-> r1.v, unlikely |-> r2.v, err |-> r1.err \/ r2.err]
        /\ i' = r2.i
    /\ UNCHANGED <<gnuc, ptrSize>>

\* if (ZN_LIKELY(cond)) return taken; return not_taken;   and the same program
\* with ZN_UNLIKELY(cond) and with the bare cond
BranchOnHint ==
    /\ op = "none"
    /\ \E cond \in Conds, a \in Vals, b \in Vals :
        LET env == Env(a, b, 0, 0, 1, 1, 1, ptrSize, 1) IN
        /\ op' = "branch"
        /\ arg' = [cond |-> cond, a |-> a, b |-> b]
        /\ res' = [likely |-> Branch(ZN_LIKELY(gnuc, cond.e), i, env),
                   unlikely |-> Branch(ZN_UNLIKELY(gnuc, cond.e), i, env),
                   bare |-> Branch(cond.e, i, env)]
    /\ UNCHANGED <<gnuc, ptrSize, i>>

\* r = ZN_LIKELY(i++);   or   r = ZN_UNLIKELY(i++);   bare is the counter after
\* the same program without the hint, r = i++;
HintSideEffect ==
    /\ op = "none"
    /\ i < MaxCount
    /\ \E h \in {"likely", "unlikely"} :
        LET env == Env(0, 0, 0, 0, 1, 1, 1, ptrSize, 1)
            ts == IF h = "likely" THEN ZN_LIKELY(gnuc, <<"i++">>)
                                  ELSE ZN_UNLIKELY(gnuc, <<"i++">>)
            r == Eval(ts, i, env) IN
        /\ op' = "hint_effect"
        /\ arg' = [h |-> h, i0 |-> i]
        /\ res' = [v |-> r.v, err |-> r.err, occ |-> Occurrences(<<"i++">>, ts),
                   bare |-> Eval(<<"i++">>, i, env).i]
        /\ i' = r.i
    /\ UNCHANGED <<gnuc, ptrSize>>

\* r = !ZN_LIKELY(cond);  r = ZN_LIKELY(cond) == c;  r = ZN_LIKELY(cond) && c;
\* r = ZN_LIKELY(cond) || c;   and the same with ZN_UNLIKELY
EncloseHint ==
    /\ op = "none"
    /\ \E cond \in Conds, ctx \in Contexts, a \in Vals, b \in Vals, c \in Vals :
        LET env == Env(a, b, c, 0, 1, 1, 1, ptrSize, 1)
            r1 == Eval(Enclose(ctx, ZN_LIKELY(gnuc, cond.e)), i, env)
            r2 == Eval(Enclose(ctx, ZN_UNLIKELY(gnuc, cond.e)), i, env) IN
        /\ op' = "enclose"
        /\ arg' = [cond |-> cond, ctx |-> ctx, a |-> a, b |-> b, c |-> c]
        /\ res' = [likely |-> r1.v, unlikely |-> r2.v, err |-> r1.err \/ r2.err]
    /\ UNCHANGED <<gnuc, ptrSize, i>>

\* The use returns; its operands and result go out of scope, the counter stays.
Finish ==
    /\ op # "none"
    /\ op' = "none"
    /\ arg' = [n |-> 0]
    /\ res' = [v |-> 0]
    /\ UNCHANGED <<gnuc, ptrSize, i>>

Next ==
    \/ UseArrayLength
    \/ UseArrayLengthOnPointer
    \/ UseArrayLengthOnScalar
    \/ UseArrayLengthSideEffect
    \/ UseHint
    \/ BranchOnHint
    \/ HintSideEffect
    \/ EncloseHint
    \/ Finish

Spec == Init /\ [][Next]_vars

\* ------------------------------------------------------------------ properties

\* The environment of the last use of a hint inside a larger expression.
EncloseEnv == Env(arg.a, arg.b, arg.c, 0, 1, 1, 1, ptrSize, 1)

\* C1: for an array of N >= 1 elements of s >= 1 bytes, sizeof(a) is N*s,
\* sizeof(a[0]) is s, the division leaves no remainder and ZN_ARRAY_LENGTH(a)
\* is N, for N = 1 and for N = 1024 too.
C1_ArrayLengthIsN ==
    op = "array_length" =>
        /\ ~res.err
        /\ res.total = arg.n * arg.s
        /\ res.elem = arg.s
        /\ res.total % res.elem = 0
        /\ res.v = arg.n

C1_Witness ==
    op = "array_length" /\ arg.n = LargeLen /\ arg.s = 8 /\ res.v = LargeLen

\* C2: in the __GNUC__ build, ZN_LIKELY(b) and ZN_UNLIKELY(b) are b for both
\* boolean values b.
C2_BuiltinIdentity ==
    op = "hint" /\ gnuc /\ arg.x \in Bools =>
        ~res.err /\ res.likely = arg.x /\ res.unlikely = arg.x

C2_Witness ==
    op = "hint" /\ gnuc /\ arg.x = 1 /\ res.likely = 1 /\ res.unlikely = 1

\* C3: in the fallback build, ZN_LIKELY(b) and ZN_UNLIKELY(b) are b for both
\* boolean values b.
C3_FallbackIdentity ==
    op = "hint" /\ ~gnuc /\ arg.x \in Bools =>
        ~res.err /\ res.likely = arg.x /\ res.unlikely = arg.x

C3_Witness ==
    op = "hint" /\ ~gnuc /\ arg.x = 0 /\ res.likely = 0 /\ res.unlikely = 0

\* C4: in both builds, a program branching on ZN_LIKELY(cond) or on
\* ZN_UNLIKELY(cond) returns the sentinel the program branching on cond returns.
C4_BranchUnchanged ==
    op = "branch" =>
        /\ res.bare \in {"taken", "not_taken"}
        /\ res.likely = res.bare
        /\ res.unlikely = res.bare

C4_Witness ==
    /\ op = "branch" /\ ~gnuc
    /\ arg.cond.e = <<"a", "||", "b">> /\ arg.a = 0 /\ arg.b = 2
    /\ res.bare = "taken" /\ res.likely = "taken"

\* C5: in each build ZN_LIKELY(x) and ZN_UNLIKELY(x) have the same value, and a
\* branch on one goes the way the branch on the other goes.
C5_HintsAgree ==
    /\ op = "hint" => ~res.err /\ res.likely = res.unlikely
    /\ op = "branch" => res.likely = res.unlikely

C5_Witness ==
    op = "hint" /\ gnuc /\ arg.x = 2 /\ res.likely = 1 /\ res.unlikely = 1

\* C6 as stated: ZN_ARRAY_LENGTH on a pointer to the first of N elements raises
\* no error and gives pointer size / element size, which is not N.
C6_PointerResultIsNeverN ==
    op = "array_length_pointer" =>
        ~res.err /\ res.v = ptrSize \div arg.s /\ res.v # arg.n

\* C6 as amended: it raises no error and gives pointer size / element size
\* whatever N is, which is not N unless N is pointer size / element size.
C6_PointerResultIsRatio ==
    op = "array_length_pointer" =>
        /\ ~res.err
        /\ res.v = ptrSize \div arg.s
        /\ arg.n # ptrSize \div arg.s => res.v # arg.n

C6_Witness ==
    /\ op = "array_length_pointer" /\ arg.n = LargeLen /\ arg.s = 4
    /\ ptrSize = 8 /\ res.v = 2

\* C7: ZN_ARRAY_LENGTH(a) holds a twice and evaluates it never: with an
\* argument that increments the counter, the counter is what it was before.
C7_ArgumentNotEvaluated ==
    op = "array_length_effect" =>
        ~res.err /\ res.occ = 2 /\ i = arg.i0 /\ res.v = arg.n

C7_Witness ==
    op = "array_length_effect" /\ arg.i0 = 1 /\ i = 1 /\ res.v = arg.n /\ arg.m = 2

\* C8: in both builds the expansion of a hint holds its argument once, and a
\* condition that increments the counter increments it once, as the bare
\* condition does.
C8_ConditionEvaluatedOnce ==
    op = "hint_effect" =>
        /\ ~res.err
        /\ res.occ = 1
        /\ i = arg.i0 + 1
        /\ i = res.bare
        /\ Truth(res.v) = Truth(arg.i0)

C8_Witness ==
    op = "hint_effect" /\ gnuc /\ arg.h = "unlikely" /\ arg.i0 = 1 /\ i = 2

\* C9: for an integer x the __GNUC__ build gives !!(x), which is 0 or 1, the
\* fallback build gives x; both are true exactly when x is, and the value of
\* the __GNUC__ build is x, the fallback's, exactly when x is 0 or 1.
C9_NormalisedOrUnchanged ==
    op = "hint" =>
        /\ gnuc => /\ res.likely = (IF arg.x = 0 THEN 0 ELSE 1)
                   /\ res.unlikely = (IF arg.x = 0 THEN 0 ELSE 1)
                   /\ res.likely \in {0, 1} /\ res.unlikely \in {0, 1}
                   /\ (res.likely = arg.x) <=> (arg.x \in {0, 1})
                   /\ (res.unlikely = arg.x) <=> (arg.x \in {0, 1})
        /\ ~gnuc => res.likely = arg.x /\ res.unlikely = arg.x
        /\ (res.likely # 0) <=> (arg.x # 0)
        /\ (res.unlikely # 0) <=> (arg.x # 0)

C9_Witness ==
    op = "hint" /\ gnuc /\ arg.x = -1 /\ res.likely = 1 /\ res.unlikely = 1

\* C10: where the enclosing operator binds tighter than the top-level operator
\* of the condition, the fallback expansion has the truth value of the
\* __GNUC__ expansion.
C10_VariantsAgreeEnclosed ==
    op = "enclose" /\ ~gnuc /\ arg.ctx.prec > arg.cond.prec =>
        /\ ~res.err
        /\ Truth(res.likely) =
             Truth(Eval(Enclose(arg.ctx, ZN_LIKELY_GNUC(arg.cond.e)), i, EncloseEnv).v)
        /\ Truth(res.unlikely) =
             Truth(Eval(Enclose(arg.ctx, ZN_UNLIKELY_GNUC(arg.cond.e)), i, EncloseEnv).v)

====
